---- MODULE Spec2Model ----
(***************************************************************************)
(* Model of the image handler Lambda entry point                           *)
(* (source/image-handler/index.ts): the handler's control flow between its *)
(* three awaits (imageRequest.setup, imageHandler.process,                 *)
(* s3Client.getObject), the response header builder and the redirect       *)
(* response.                                                               *)
(*                                                                         *)
(* JavaScript objects are records whose DOMAIN is the set of properties    *)
(* the object carries: reading a property that is not in the DOMAIN gives  *)
(* undefined.  Header values are tagged (string, boolean, undefined) so    *)
(* that the boolean true of Access-Control-Allow-Credentials and a string  *)
(* "true" supplied by a custom header stay different values.               *)
(***************************************************************************)
EXTENDS Integers, Sequences, FiniteSets, TLC

VARIABLES
    env,               \* process.env: read-only configuration of the process
    invocation,        \* number of handler invocations started so far
    event,             \* the inbound event of the current invocation
    pc,                \* position of the handler: which await it is suspended at
    isAlb,             \* line 31
    imageRequestInfo,  \* line 33 / 36
    error,             \* the value caught by the outer catch (line 65)
    calls,             \* the external calls made by this invocation, in order
    processedRequest,  \* line 45: what process resolved with
    defaultFallbackImage, \* line 81: how the getObject call ended
    builderCalls,      \* the getResponseHeaders calls made by this invocation
    completion,        \* how the invocation ended: returned value or fault
    args,              \* the argument of the latest external call
    first              \* history: the first of two identical invocations

vars == <<env, invocation, event, pc, isAlb, imageRequestInfo, error, calls,
          processedRequest, defaultFallbackImage, builderCalls, completion,
          args, first>>

\* Number of invocations one process (one loaded module) serves in the model.
MaxInvocations == 2

-----------------------------------------------------------------------------
(* JavaScript values *)

\* obj.hasOwnProperty(f) / "obj.f is not undefined"
Has(obj, f) == f \in DOMAIN obj

\* {} : the object without properties
EmptyObject == [k \in {} |-> ""]

JStr(s) == [t |-> "string", v |-> s]
JTrue == [t |-> "boolean", v |-> "true"]
JUndefined == [t |-> "undefined", v |-> "undefined"]

\* the value of the expression obj.f, for a string-valued property
Prop(obj, f) == IF Has(obj, f) THEN JStr(obj[f]) ELSE JUndefined

\* `${obj.f}` : a template literal renders a missing property as "undefined"
TemplateStr(obj, f) == IF Has(obj, f) THEN obj[f] ELSE "undefined"

\* headers[k] = v
Put(h, k, v) == [x \in DOMAIN h \cup {k} |-> IF x = k THEN v ELSE h[x]]

\* { ...a, ...b } : the properties of b win
Spread(a, b) == [x \in DOMAIN a \cup DOMAIN b |-> IF x \in DOMAIN b THEN b[x] ELSE a[x]]

\* Buffer.toString("base64") (RFC 4648, with padding)
B64Alphabet ==
    << "A","B","C","D","E","F","G","H","I","J","K","L","M","N","O","P",
       "Q","R","S","T","U","V","W","X","Y","Z","a","b","c","d","e","f",
       "g","h","i","j","k","l","m","n","o","p","q","r","s","t","u","v",
       "w","x","y","z","0","1","2","3","4","5","6","7","8","9","+","/" >>

B64Char(n) == B64Alphabet[n + 1]

RECURSIVE ToBase64(_)
ToBase64(bytes) ==
    IF Len(bytes) = 0 THEN ""
    ELSE IF Len(bytes) = 1 THEN
        B64Char(bytes[1] \div 4) \o B64Char((bytes[1] % 4) * 16) \o "=="
    ELSE IF Len(bytes) = 2 THEN
        B64Char(bytes[1] \div 4)
          \o B64Char((bytes[1] % 4) * 16 + bytes[2] \div 16)
          \o B64Char((bytes[2] % 16) * 4) \o "="
    ELSE
        B64Char(bytes[1] \div 4)
          \o B64Char((bytes[1] % 4) * 16 + bytes[2] \div 16)
          \o B64Char((bytes[2] % 16) * 4 + bytes[3] \div 64)
          \o B64Char(bytes[3] % 64)
          \o ToBase64(SubSeq(bytes, 4, Len(bytes)))

-----------------------------------------------------------------------------
(* Constants of ./lib and ../solution-utils *)

StatusCodesOK == 200
StatusCodesMOVED == 301
StatusCodesINTERNAL_SERVER_ERROR == 500

\* strings that are empty or consist of white space only
BlankStrings == {"", " "}

\* isNullOrWhiteSpace(process.env[name])
isNullOrWhiteSpace(obj, name) == ~Has(obj, name) \/ obj[name] \in BlankStrings

-----------------------------------------------------------------------------
(* The inputs: configuration, events and the collaborators' outcomes *)

Environments ==
    { Spread(Spread([HIGHRES_CDN_URL |-> "https://cdn.example",
                     CORS_ORIGIN |-> "*",
                     ENABLE_DEFAULT_FALLBACK_IMAGE |-> enable,
                     CORS_ENABLED |-> cors], bucket), key) :
        enable \in {"Yes", "No"},
        cors \in {"Yes", "No"},
        bucket \in {EmptyObject,
                    [DEFAULT_FALLBACK_IMAGE_BUCKET |-> " "],
                    [DEFAULT_FALLBACK_IMAGE_BUCKET |-> "fallback-bucket"]},
        key \in {[DEFAULT_FALLBACK_IMAGE_KEY |-> ""],
                 [DEFAULT_FALLBACK_IMAGE_KEY |-> "fallback.png"]} }

\* an event without requestContext, an API Gateway event, an ALB event
Events ==
    { [path |-> "/image"],
      [path |-> "/image", requestContext |-> [stage |-> "prod"]],
      [path |-> "/image", requestContext |-> [elb |-> "targetGroupArn"]] }

NoEdits == EmptyObject
SomeEdits == [resize |-> "width=100"]

CustomHeaders ==
    { EmptyObject,
      [headers |-> EmptyObject],
      [headers |-> [k \in {"Content-Type"} |-> "text/custom"]],
      [headers |-> [k \in {"Cache-Control", "X-Custom"} |-> "custom"]],
      [headers |-> [k \in {"Access-Control-Allow-Credentials"} |-> "true"]] }

ContentFields ==
    { EmptyObject,
      [contentType |-> "image/png", expires |-> "Thu, 01 Jan 2026 00:00:00 GMT",
       lastModified |-> "Mon, 02 Nov 2026 00:00:00 GMT", cacheControl |-> "max-age=60"] }

\* what imageRequest.setup resolves with
RequestInfos ==
    { Spread(Spread([key |-> k, edits |-> e], c), h) :
        k \in {"", "cat.jpg"}, e \in {NoEdits, SomeEdits},
        c \in ContentFields, h \in CustomHeaders }

\* what imageHandler.process resolves with: a base64 string
ProcessedImages == {"aW1hZ2U="}

TooLarge == "TooLargeImageException"

\* what a collaborator rejects with: an object with or without status, code, message
ErrorInfos ==
    { Spread(Spread(s, c), m) :
        s \in {EmptyObject, [status |-> 400], [status |-> 413]},
        c \in {EmptyObject, [code |-> TooLarge], [code |-> "BadRequest"]},
        m \in {EmptyObject, [message |-> "invalid edits"]} }

\* what s3Client.getObject resolves with
FallbackObjects ==
    { [Body |-> <<102>>, ContentType |-> "image/png", LastModified |-> "lm-1"],
      [Body |-> <<102, 111>>, ContentType |-> "image/jpeg", LastModified |-> "lm-2"],
      [Body |-> <<102, 111, 111, 98>>, ContentType |-> "image/png", LastModified |-> "lm-3"] }

-----------------------------------------------------------------------------
(* Pure parts of index.ts *)

AllowCredentials == "Access-Control-Allow-Credentials"

\* line 31: event.requestContext && hasOwnProperty.call(event.requestContext, "elb")
\* is undefined when the event has no requestContext, a boolean otherwise
IsAlbOf(ev) ==
    IF ~Has(ev, "requestContext") THEN "undefined"
    ELSE IF Has(ev.requestContext, "elb") THEN "true" ELSE "false"

\* the credentials header added for every origin
getResponseHeaders_alwaysCredentials(isError, isAlbArg) ==
    LET h0 == [k \in {"Access-Control-Allow-Methods", "Access-Control-Allow-Headers"} |->
                 IF k = "Access-Control-Allow-Methods"
                 THEN JStr("GET") ELSE JStr("Content-Type, Authorization")]
        h1 == Put(h0, AllowCredentials, JTrue)
        h2 == IF Has(env, "CORS_ENABLED") /\ env.CORS_ENABLED = "Yes"
              THEN Put(h1, "Access-Control-Allow-Origin", Prop(env, "CORS_ORIGIN"))
              ELSE h1
        h3 == IF isError THEN Put(h2, "Content-Type", JStr("application/json")) ELSE h2
    IN  h3

\* the allow-origin header added whether or not CORS is enabled
getResponseHeaders_originAlways(isError, isAlbArg) ==
    LET alb == IF isAlbArg = "undefined" THEN "false" ELSE isAlbArg
        h0 == [k \in {"Access-Control-Allow-Methods", "Access-Control-Allow-Headers"} |->
                 IF k = "Access-Control-Allow-Methods"
                 THEN JStr("GET") ELSE JStr("Content-Type, Authorization")]
        h1 == IF alb # "true" THEN Put(h0, AllowCredentials, JTrue) ELSE h0
        h2 == Put(h1, "Access-Control-Allow-Origin", Prop(env, "CORS_ORIGIN"))
        h3 == IF isError THEN Put(h2, "Content-Type", JStr("application/json")) ELSE h2
    IN  h3

\* the credentials header left out when the handler's isAlb is undefined
getResponseHeaders_undefinedIsAlb(isError, isAlbArg) ==
    LET h0 == [k \in {"Access-Control-Allow-Methods", "Access-Control-Allow-Headers"} |->
                 IF k = "Access-Control-Allow-Methods"
                 THEN JStr("GET") ELSE JStr("Content-Type, Authorization")]
        h1 == IF isAlbArg = "false" THEN Put(h0, AllowCredentials, JTrue) ELSE h0
        h2 == IF Has(env, "CORS_ENABLED") /\ env.CORS_ENABLED = "Yes"
              THEN Put(h1, "Access-Control-Allow-Origin", Prop(env, "CORS_ORIGIN"))
              ELSE h1
        h3 == IF isError THEN Put(h2, "Content-Type", JStr("application/json")) ELSE h2
    IN  h3

\* lines 132-153; an undefined isAlb argument takes the default value false
getResponseHeaders(isError, isAlbArg) ==
    LET alb == IF isAlbArg = "undefined" THEN "false" ELSE isAlbArg
        h0 == [k \in {"Access-Control-Allow-Methods", "Access-Control-Allow-Headers"} |->
                 IF k = "Access-Control-Allow-Methods"
                 THEN JStr("GET") ELSE JStr("Content-Type, Authorization")]
        h1 == IF alb # "true" THEN Put(h0, AllowCredentials, JTrue) ELSE h0
        h2 == IF Has(env, "CORS_ENABLED") /\ env.CORS_ENABLED = "Yes"
              THEN Put(h1, "Access-Control-Allow-Origin", Prop(env, "CORS_ORIGIN"))
              ELSE h1
        h3 == IF isError THEN Put(h2, "Content-Type", JStr("application/json")) ELSE h2
    IN  h3

\* the Location header added to the header builder's output
getRedirectResponse_withBuilderHeaders(info) ==
    [statusCode |-> StatusCodesMOVED,
     isBase64Encoded |-> FALSE,
     headers |-> Put(getResponseHeaders(FALSE, isAlb), "Location",
                     JStr(TemplateStr(env, "HIGHRES_CDN_URL") \o "/" \o TemplateStr(info, "key"))),
     body |-> [t |-> "null"]]

\* a missing key rendered as the empty string
getRedirectResponse_blankKey(info) ==
    [statusCode |-> StatusCodesMOVED,
     isBase64Encoded |-> FALSE,
     headers |-> [k \in {"Location"} |->
                    JStr(TemplateStr(env, "HIGHRES_CDN_URL") \o "/"
                           \o (IF Has(info, "key") THEN info.key ELSE ""))],
     body |-> [t |-> "null"]]

\* lines 160-169
getRedirectResponse(info) ==
    [statusCode |-> StatusCodesMOVED,
     isBase64Encoded |-> FALSE,
     headers |-> [k \in {"Location"} |->
                    JStr(TemplateStr(env, "HIGHRES_CDN_URL") \o "/" \o TemplateStr(info, "key"))],
     body |-> [t |-> "null"]]

\* line 40: Object.keys(edits).length === 0 && key !== ''
\* (an undefined key is not the empty string)
GateRedirects(info) ==
    /\ Cardinality(DOMAIN info.edits) = 0
    /\ (~Has(info, "key") \/ info.key # "")

\* the custom headers applied before the four content headers instead of after
SuccessResponse_customFirst(info, processed, alb) ==
    LET h0 == getResponseHeaders(FALSE, alb)
        h1 == IF Has(info, "headers")
              THEN Spread(h0, [k \in DOMAIN info.headers |-> JStr(info.headers[k])])
              ELSE h0
        h2 == Put(h1, "Content-Type", Prop(info, "contentType"))
        h3 == Put(h2, "Expires", Prop(info, "expires"))
        h4 == Put(h3, "Last-Modified", Prop(info, "lastModified"))
        h5 == Put(h4, "Cache-Control", Prop(info, "cacheControl"))
    IN  [statusCode |-> StatusCodesOK,
         isBase64Encoded |-> TRUE,
         headers |-> h5,
         body |-> [t |-> "base64", b64 |-> processed]]

\* lines 47-64
SuccessResponse(info, processed, alb) ==
    LET h0 == getResponseHeaders(FALSE, alb)
        h1 == Put(h0, "Content-Type", Prop(info, "contentType"))
        h2 == Put(h1, "Expires", Prop(info, "expires"))
        h3 == Put(h2, "Last-Modified", Prop(info, "lastModified"))
        h4 == Put(h3, "Cache-Control", Prop(info, "cacheControl"))
        h5 == IF Has(info, "headers")
              THEN Spread(h4, [k \in DOMAIN info.headers |-> JStr(info.headers[k])])
              ELSE h4
    IN  [statusCode |-> StatusCodesOK,
         isBase64Encoded |-> TRUE,
         headers |-> h5,
         body |-> [t |-> "base64", b64 |-> processed]]

\* line 69
IsTooLarge(err) == Has(err, "code") /\ err.code = TooLarge

\* the fallback key left unchecked
FallbackConfigured_ignoresKey ==
    /\ Has(env, "ENABLE_DEFAULT_FALLBACK_IMAGE")
    /\ env.ENABLE_DEFAULT_FALLBACK_IMAGE = "Yes"
    /\ ~isNullOrWhiteSpace(env, "DEFAULT_FALLBACK_IMAGE_BUCKET")

\* the default fallback image tried by the first invocation of a process only
FallbackConfigured_firstInvocationOnly ==
    /\ invocation = 1
    /\ Has(env, "ENABLE_DEFAULT_FALLBACK_IMAGE")
    /\ env.ENABLE_DEFAULT_FALLBACK_IMAGE = "Yes"
    /\ ~isNullOrWhiteSpace(env, "DEFAULT_FALLBACK_IMAGE_BUCKET")
    /\ ~isNullOrWhiteSpace(env, "DEFAULT_FALLBACK_IMAGE_KEY")

\* lines 75-79
FallbackConfigured ==
    /\ Has(env, "ENABLE_DEFAULT_FALLBACK_IMAGE")
    /\ env.ENABLE_DEFAULT_FALLBACK_IMAGE = "Yes"
    /\ ~isNullOrWhiteSpace(env, "DEFAULT_FALLBACK_IMAGE_BUCKET")
    /\ ~isNullOrWhiteSpace(env, "DEFAULT_FALLBACK_IMAGE_KEY")

\* error.status ? ... : ... (a missing status and the number 0 are falsy)
StatusTruthy(err) == Has(err, "status") /\ err.status # 0

\* the fallback image always served with status 500
FallbackImageResponse_always500(err, object, alb) ==
    LET h0 == getResponseHeaders(FALSE, alb)
        h1 == Put(h0, "Content-Type", Prop(object, "ContentType"))
        h2 == Put(h1, "Last-Modified", Prop(object, "LastModified"))
        h3 == Put(h2, "Cache-Control", JStr("max-age=31536000,public"))
    IN  [statusCode |-> StatusCodesINTERNAL_SERVER_ERROR,
         isBase64Encoded |-> TRUE,
         headers |-> h3,
         body |-> [t |-> "base64", b64 |-> ToBase64(object.Body)]]

\* lines 88-98
FallbackImageResponse(err, object, alb) ==
    LET h0 == getResponseHeaders(FALSE, alb)
        h1 == Put(h0, "Content-Type", Prop(object, "ContentType"))
        h2 == Put(h1, "Last-Modified", Prop(object, "LastModified"))
        h3 == Put(h2, "Cache-Control", JStr("max-age=31536000,public"))
    IN  [statusCode |-> IF StatusTruthy(err) THEN err.status
                        ELSE StatusCodesINTERNAL_SERVER_ERROR,
         isBase64Encoded |-> TRUE,
         headers |-> h3,
         body |-> [t |-> "base64", b64 |-> ToBase64(object.Body)]]

\* String(obj) in place of JSON.stringify(obj)
JSONstringify_toString(obj) == [t |-> "text", text |-> "[object Object]"]

\* JSON.stringify(obj) of an object of scalars: the text lists exactly the
\* properties the object carries; it is kept as that list of members
JSONstringify(obj) == [t |-> "json", json |-> obj]

GenericError ==
    [message |-> "Internal error. Please contact the system administrator.",
     code |-> "InternalError",
     status |-> StatusCodesINTERNAL_SERVER_ERROR]

\* the generic body returned for every error, with the error's status
ErrorResponse_alwaysGeneric(err, alb) ==
    [statusCode |-> IF StatusTruthy(err) THEN err.status
                    ELSE StatusCodesINTERNAL_SERVER_ERROR,
     isBase64Encoded |-> FALSE,
     headers |-> getResponseHeaders(TRUE, alb),
     body |-> JSONstringify(GenericError)]

\* the caught error's message put into the body of the 500 response
ErrorResponse_leaksMessage(err, alb) ==
    IF StatusTruthy(err)
    THEN [statusCode |-> err.status,
          isBase64Encoded |-> FALSE,
          headers |-> getResponseHeaders(TRUE, alb),
          body |-> JSONstringify(err)]
    ELSE [statusCode |-> StatusCodesINTERNAL_SERVER_ERROR,
          isBase64Encoded |-> FALSE,
          headers |-> getResponseHeaders(TRUE, alb),
          body |-> JSONstringify(Spread(GenericError, err))]

\* lines 104-122
ErrorResponse(err, alb) ==
    IF StatusTruthy(err)
    THEN [statusCode |-> err.status,
          isBase64Encoded |-> FALSE,
          headers |-> getResponseHeaders(TRUE, alb),
          body |-> JSONstringify(err)]
    ELSE [statusCode |-> StatusCodesINTERNAL_SERVER_ERROR,
          isBase64Encoded |-> FALSE,
          headers |-> getResponseHeaders(TRUE, alb),
          body |-> JSONstringify(GenericError)]

\* the record of one getResponseHeaders call
BuilderCall(isError, alb) ==
    [isError |-> isError, isAlb |-> alb, out |-> getResponseHeaders(isError, alb)]

\* how an invocation ends
Returned(result) == [type |-> "return", value |-> result]
Thrown == [type |-> "throw"]
Running == [type |-> "none"]

\* One step of the handler, from one await to the next await or to its end:
\* the statement reached, the completion, the header builder calls made and,
\* for an external call, its argument.
Return(result, built) == [goto |-> "done", completion |-> Returned(result), built |-> built]
Throw == [goto |-> "done", completion |-> Thrown, built |-> <<>>]
Call(collaborator, arg) ==
    [goto |-> collaborator, completion |-> Running, built |-> <<>>, arg |-> arg]

\* lines 82-85: the argument of s3Client.getObject
FallbackLocation ==
    [Bucket |-> Prop(env, "DEFAULT_FALLBACK_IMAGE_BUCKET"),
     Key |-> Prop(env, "DEFAULT_FALLBACK_IMAGE_KEY")]

\* the gate of line 40 without its test of the key
AfterSetup_ignoresKey(info) ==
    IF Cardinality(DOMAIN info.edits) = 0
    THEN Return(getRedirectResponse(info), <<>>)
    ELSE Call("process", info)

\* the gate of line 40 left out: every resolved request is processed
AfterSetup_skipsGate(info) == Call("process", info)

\* lines 36-45, once setup has resolved
AfterSetup(info) ==
    IF GateRedirects(info)
    THEN Return(getRedirectResponse(info), <<>>)
    ELSE Call("process", info)

\* lines 45-64, once process has resolved
AfterProcess(info, processed, alb) ==
    Return(SuccessResponse(info, processed, alb), <<BuilderCall(FALSE, alb)>>)

\* the error branch ends without a return statement
TierThree_noReturn(err, alb) ==
    [goto |-> "done", completion |-> Running, built |-> <<BuilderCall(TRUE, alb)>>]

\* lines 104-122
TierThree(err, alb) ==
    Return(ErrorResponse(err, alb), <<BuilderCall(TRUE, alb)>>)

\* the default fallback image tried before the too-large redirect
OuterCatch_fallbackFirst(err, info, alb) ==
    IF FallbackConfigured THEN Call("getObject", FallbackLocation)
    ELSE IF IsTooLarge(err) THEN Return(getRedirectResponse(info), <<>>)
    ELSE TierThree(err, alb)

\* lines 65-86 and 104-122: the outer catch, up to the getObject call
OuterCatch(err, info, alb) ==
    IF IsTooLarge(err) THEN Return(getRedirectResponse(info), <<>>)
    ELSE IF FallbackConfigured THEN Call("getObject", FallbackLocation)
    ELSE TierThree(err, alb)

\* lines 86-98, once getObject has resolved
AfterGetObject(err, object, alb) ==
    Return(FallbackImageResponse(err, object, alb), <<BuilderCall(FALSE, alb)>>)

\* a getObject failure that escapes the handler instead of being logged
InnerCatch_rethrows(err, alb) == Throw

\* a getObject failure that is answered by fetching again
InnerCatch_retries(err, alb) == Call("getObject", FallbackLocation)

\* the error of the inner catch, which shadows the outer one, reported by Tier 3
InnerCatch_reportsFetchError(err, alb) == TierThree(defaultFallbackImage'.error, alb)

\* lines 99-122: the inner catch logs the getObject failure and falls
\* through to line 104 with the error of the outer catch
InnerCatch(err, alb) == TierThree(err, alb)

-----------------------------------------------------------------------------
(* The handler *)

NotCaught == [caught |-> FALSE]
Caught(err) == [caught |-> TRUE, value |-> err]
NotFetched == [state |-> "none"]
NotRecorded == [recorded |-> FALSE]

Init ==
    /\ env \in Environments
    /\ invocation = 0
    /\ event = EmptyObject
    /\ pc = "idle"
    /\ isAlb = "undefined"
    /\ imageRequestInfo = EmptyObject
    /\ error = NotCaught
    /\ calls = <<>>
    /\ processedRequest = ""
    /\ defaultFallbackImage = NotFetched
    /\ builderCalls = <<>>
    /\ completion = Running
    /\ args = EmptyObject
    /\ first = NotRecorded

\* what a step does to the handler's position, completion and call logs
Take(step, log) ==
    /\ pc' = step.goto
    /\ completion' = step.completion
    /\ builderCalls' = builderCalls \o step.built
    /\ calls' = IF step.goto = "done" THEN log ELSE Append(log, step.goto)
    /\ args' = IF step.goto = "done" THEN args ELSE step.arg
    /\ first' = first

\* lines 26-36: the handler runs from its entry up to the setup call
Enter(ev) ==
    /\ pc \in {"idle", "done"}
    /\ invocation < MaxInvocations
    /\ invocation' = invocation + 1
    /\ event' = ev
    /\ isAlb' = IsAlbOf(ev)
    /\ imageRequestInfo' = EmptyObject
    /\ error' = NotCaught
    /\ processedRequest' = ""
    /\ defaultFallbackImage' = NotFetched
    /\ pc' = "setup"
    /\ calls' = <<"setup">>
    /\ builderCalls' = <<>>
    /\ completion' = Running
    /\ args' = ev
    /\ UNCHANGED env

\* the host invokes the handler
Invoke(ev) == Enter(ev) /\ first' = first

\* lines 36-45: setup resolves
SetupResolves(info) ==
    /\ pc = "setup"
    /\ imageRequestInfo' = info
    /\ Take(AfterSetup(info), Append(calls, "setup:resolved"))
    /\ UNCHANGED <<env, invocation, event, isAlb, error, processedRequest,
                   defaultFallbackImage>>

\* lines 36, 65-86: setup rejects; imageRequestInfo is still the {} of line 33
SetupRejects(err) ==
    /\ pc = "setup"
    /\ error' = Caught(err)
    /\ Take(OuterCatch(err, imageRequestInfo, isAlb), Append(calls, "setup:rejected"))
    /\ UNCHANGED <<env, invocation, event, isAlb, imageRequestInfo, processedRequest,
                   defaultFallbackImage>>

\* lines 45-64: process resolves
ProcessResolves(processed) ==
    /\ pc = "process"
    /\ processedRequest' = processed
    /\ Take(AfterProcess(imageRequestInfo, processed, isAlb),
            Append(calls, "process:resolved"))
    /\ UNCHANGED <<env, invocation, event, isAlb, imageRequestInfo, error,
                   defaultFallbackImage>>

\* lines 45, 65-86: process rejects
ProcessRejects(err) ==
    /\ pc = "process"
    /\ error' = Caught(err)
    /\ Take(OuterCatch(err, imageRequestInfo, isAlb), Append(calls, "process:rejected"))
    /\ UNCHANGED <<env, invocation, event, isAlb, imageRequestInfo, processedRequest,
                   defaultFallbackImage>>

\* lines 81-98: getObject resolves
GetObjectResolves(object) ==
    /\ pc = "getObject"
    /\ defaultFallbackImage' = [state |-> "resolved", object |-> object]
    /\ Take(AfterGetObject(error.value, object, isAlb),
            Append(calls, "getObject:resolved"))
    /\ UNCHANGED <<env, invocation, event, isAlb, imageRequestInfo, error,
                   processedRequest>>

\* lines 81-86, 99-122: getObject rejects
GetObjectRejects(fetchError) ==
    /\ pc = "getObject"
    /\ defaultFallbackImage' = [state |-> "rejected", error |-> fetchError]
    /\ Take(InnerCatch(error.value, isAlb), Append(calls, "getObject:rejected"))
    /\ UNCHANGED <<env, invocation, event, isAlb, imageRequestInfo, error,
                   processedRequest>>

Next ==
    \/ \E ev \in Events : Invoke(ev)
    \/ \E info \in RequestInfos : SetupResolves(info)
    \/ \E err \in ErrorInfos : SetupRejects(err)
    \/ \E processed \in ProcessedImages : ProcessResolves(processed)
    \/ \E err \in ErrorInfos : ProcessRejects(err)
    \/ \E object \in FallbackObjects : GetObjectResolves(object)
    \/ \E fetchError \in ErrorInfos : GetObjectRejects(fetchError)

Spec == Init /\ [][Next]_vars

-----------------------------------------------------------------------------
(* Two invocations in sequence with the same event and the same outcomes of *)
(* setup, process and getObject.                                            *)

\* the host invokes the handler again with the event of the first invocation
Reinvoke ==
    /\ invocation = 1
    /\ first' = [recorded |-> TRUE,
                 event |-> event,
                 imageRequestInfo |-> imageRequestInfo,
                 error |-> error,
                 processedRequest |-> processedRequest,
                 defaultFallbackImage |-> defaultFallbackImage,
                 calls |-> calls,
                 completion |-> completion]
    /\ Enter(event)

FirstInvocation ==
    \/ invocation = 0 /\ \E ev \in Events : Invoke(ev)
    \/ invocation = 1 /\ \E info \in RequestInfos : SetupResolves(info)
    \/ invocation = 1 /\ \E err \in ErrorInfos : SetupRejects(err)
    \/ invocation = 1 /\ \E processed \in ProcessedImages : ProcessResolves(processed)
    \/ invocation = 1 /\ \E err \in ErrorInfos : ProcessRejects(err)
    \/ invocation = 1 /\ \E object \in FallbackObjects : GetObjectResolves(object)
    \/ invocation = 1 /\ \E fetchError \in ErrorInfos : GetObjectRejects(fetchError)

\* each collaborator answers the second invocation as it answered the first
SecondInvocation ==
    \/ /\ invocation = 2
       /\ first.calls[2] = "setup:resolved"
       /\ SetupResolves(first.imageRequestInfo)
    \/ /\ invocation = 2
       /\ first.calls[2] = "setup:rejected"
       /\ SetupRejects(first.error.value)
    \/ /\ invocation = 2
       /\ Len(first.calls) >= 4
       /\ first.calls[4] = "process:resolved"
       /\ ProcessResolves(first.processedRequest)
    \/ /\ invocation = 2
       /\ Len(first.calls) >= 4
       /\ first.calls[4] = "process:rejected"
       /\ ProcessRejects(first.error.value)
    \/ /\ invocation = 2
       /\ first.defaultFallbackImage.state = "resolved"
       /\ GetObjectResolves(first.defaultFallbackImage.object)
    \/ /\ invocation = 2
       /\ first.defaultFallbackImage.state = "rejected"
       /\ GetObjectRejects(first.defaultFallbackImage.error)

\* a collaborator answers the call the handler is suspended at
Answer ==
    \/ \E info \in RequestInfos : SetupResolves(info)
    \/ \E err \in ErrorInfos : SetupRejects(err)
    \/ \E processed \in ProcessedImages : ProcessResolves(processed)
    \/ \E err \in ErrorInfos : ProcessRejects(err)
    \/ \E object \in FallbackObjects : GetObjectResolves(object)
    \/ \E fetchError \in ErrorInfos : GetObjectRejects(fetchError)

\* One invocation in which every external call eventually resolves or rejects
SpecFair == Init /\ [][FirstInvocation]_vars /\ WF_vars(Answer)

NextTwice == FirstInvocation \/ Reinvoke \/ SecondInvocation

SpecTwice == Init /\ [][NextTwice]_vars

-----------------------------------------------------------------------------
(* The legacy handler (index.js of the untyped variant)                     *)

\* edits of a legacy request: none, a resize, the noDimPath marker
LegacyRequests ==
    { [key |-> k, edits |-> e] :
        k \in {"", "cat.jpg"},
        e \in {NoEdits, SomeEdits, [noDimPath |-> "true"]} }

\* lines 62-77
legacyGetResponseHeaders(isErr) ==
    LET h0 == [k \in {"Access-Control-Allow-Methods", "Access-Control-Allow-Headers",
                      AllowCredentials, "Content-Type"} |->
                 IF k = "Access-Control-Allow-Methods" THEN JStr("GET")
                 ELSE IF k = "Access-Control-Allow-Headers"
                      THEN JStr("Content-Type, Authorization")
                 ELSE IF k = AllowCredentials THEN JTrue
                 ELSE JStr("image")]
        h1 == IF Has(env, "CORS_ENABLED") /\ env.CORS_ENABLED = "Yes"
              THEN Put(h0, "Access-Control-Allow-Origin", Prop(env, "CORS_ORIGIN"))
              ELSE h0
        h2 == IF isErr THEN Put(h1, "Content-Type", JStr("application/json")) ELSE h1
    IN  h2

\* lines 25-33: the redirect response has a statusCode and headers only
LegacyRedirectResponse(request) ==
    [statusCode |-> 301,
     headers |-> [k \in {"Location"} |->
                    JStr(TemplateStr(env, "HIGHRES_CDN_URL") \o "/" \o TemplateStr(request, "key"))]]

\* lines 36-41
LegacySuccessResponse(processed) ==
    [statusCode |-> 200,
     headers |-> legacyGetResponseHeaders(FALSE),
     body |-> [t |-> "base64", b64 |-> processed],
     isBase64Encoded |-> TRUE]

\* lines 47-52: statusCode is err.status, which is undefined for an error
\* without status; the property then holds no value
LegacyErrorResponse(err) ==
    Spread([headers |-> legacyGetResponseHeaders(TRUE),
            body |-> JSONstringify(err),
            isBase64Encoded |-> FALSE],
           IF Has(err, "status") THEN [statusCode |-> err.status] ELSE EmptyObject)

\* line 25: request.edits.noDimPath
LegacyAfterSetup(request) ==
    IF Has(request.edits, "noDimPath")
    THEN Return(LegacyRedirectResponse(request), <<>>)
    ELSE Call("process", request)

\* lines 17-22: the handler runs from its entry up to the setup call
LegacyInvoke(ev) ==
    /\ pc \in {"idle", "done"}
    /\ invocation < MaxInvocations
    /\ invocation' = invocation + 1
    /\ event' = ev
    /\ imageRequestInfo' = EmptyObject
    /\ error' = NotCaught
    /\ processedRequest' = ""
    /\ pc' = "setup"
    /\ calls' = <<"setup">>
    /\ completion' = Running
    /\ args' = ev
    /\ UNCHANGED <<env, isAlb, defaultFallbackImage, builderCalls, first>>

\* lines 22-33: setup resolves
LegacySetupResolves(request) ==
    /\ pc = "setup"
    /\ imageRequestInfo' = request
    /\ Take(LegacyAfterSetup(request), Append(calls, "setup:resolved"))
    /\ UNCHANGED <<env, invocation, event, isAlb, error, processedRequest,
                   defaultFallbackImage>>

\* lines 22, 45-54: setup rejects
LegacySetupRejects(err) ==
    /\ pc = "setup"
    /\ error' = Caught(err)
    /\ Take(Return(LegacyErrorResponse(err), <<>>), Append(calls, "setup:rejected"))
    /\ UNCHANGED <<env, invocation, event, isAlb, imageRequestInfo, processedRequest,
                   defaultFallbackImage>>

\* lines 35-44: process resolves
LegacyProcessResolves(processed) ==
    /\ pc = "process"
    /\ processedRequest' = processed
    /\ Take(Return(LegacySuccessResponse(processed), <<>>),
            Append(calls, "process:resolved"))
    /\ UNCHANGED <<env, invocation, event, isAlb, imageRequestInfo, error,
                   defaultFallbackImage>>

\* lines 35, 45-54: process rejects
LegacyProcessRejects(err) ==
    /\ pc = "process"
    /\ error' = Caught(err)
    /\ Take(Return(LegacyErrorResponse(err), <<>>), Append(calls, "process:rejected"))
    /\ UNCHANGED <<env, invocation, event, isAlb, imageRequestInfo, processedRequest,
                   defaultFallbackImage>>

LegacyNext ==
    \/ \E ev \in Events : LegacyInvoke(ev)
    \/ \E request \in LegacyRequests : LegacySetupResolves(request)
    \/ \E err \in ErrorInfos : LegacySetupRejects(err)
    \/ \E processed \in ProcessedImages : LegacyProcessResolves(processed)
    \/ \E err \in ErrorInfos : LegacyProcessRejects(err)

LegacySpec == Init /\ [][LegacyNext]_vars

-----------------------------------------------------------------------------
(* Properties *)

Done == pc = "done"
Result == completion.value
LastCall == calls[Len(calls)]
Made(call) == \E i \in 1..Len(calls) : calls[i] = call
Count(call) == Cardinality({i \in 1..Len(calls) : calls[i] = call})
ResultFields == {"statusCode", "isBase64Encoded", "headers", "body"}

SetupResolved == Made("setup:resolved")

\* C2: when setup resolves with empty edits and a non-empty key, the result
\* is the redirect: 301, Location = HIGHRES_CDN_URL + "/" + key, body null,
\* isBase64Encoded false, and process is never called.
C2_NoEditsRedirect ==
    (SetupResolved /\ DOMAIN imageRequestInfo.edits = {} /\ imageRequestInfo.key # "")
    => /\ Done
       /\ completion =
            [type |-> "return",
             value |-> [statusCode |-> 301,
                        isBase64Encoded |-> FALSE,
                        headers |-> [k \in {"Location"} |->
                                       JStr(env.HIGHRES_CDN_URL \o "/" \o imageRequestInfo.key)],
                        body |-> [t |-> "null"]]]
       /\ ~Made("process")

C2_Witness ==
    /\ Done
    /\ SetupResolved
    /\ DOMAIN imageRequestInfo.edits = {}
    /\ imageRequestInfo.key = "cat.jpg"
    /\ Result.headers["Location"] = JStr("https://cdn.example/cat.jpg")

\* the response header and the RequestInfo field of lines 48-52
ContentHeaders ==
    { <<"Content-Type", "contentType">>, <<"Expires", "expires">>,
      <<"Last-Modified", "lastModified">>, <<"Cache-Control", "cacheControl">> }

CustomOf(info) == IF Has(info, "headers") THEN info.headers ELSE EmptyObject

Succeeded == Done /\ LastCall = "process:resolved"

\* C3: when setup and process both resolve, the result has status 200,
\* isBase64Encoded true, the processed payload as body, and headers in which
\* every key of RequestInfo.headers has the custom value, each of the four
\* content headers that RequestInfo.headers does not name has the
\* RequestInfo field's value, and every other key is the header builder's.
C3_SuccessResponse ==
    Succeeded =>
      LET custom == CustomOf(imageRequestInfo)
          built == getResponseHeaders(FALSE, isAlb)
          content == {c[1] : c \in ContentHeaders}
      IN  /\ Result.statusCode = 200
          /\ Result.isBase64Encoded = TRUE
          /\ Result.body = [t |-> "base64", b64 |-> processedRequest]
          /\ DOMAIN Result.headers = DOMAIN built \cup content \cup DOMAIN custom
          /\ \A k \in DOMAIN custom : Result.headers[k] = JStr(custom[k])
          /\ \A c \in ContentHeaders :
               c[1] \notin DOMAIN custom
                 => Result.headers[c[1]] = Prop(imageRequestInfo, c[2])
          /\ \A k \in DOMAIN built \ (content \cup DOMAIN custom) :
               Result.headers[k] = built[k]

\* a success in which a custom Content-Type overrides the RequestInfo's
C3_Witness ==
    /\ Succeeded
    /\ Has(imageRequestInfo, "contentType")
    /\ Has(imageRequestInfo, "headers")
    /\ Has(imageRequestInfo.headers, "Content-Type")
    /\ Result.headers["Content-Type"] = JStr("text/custom")
    /\ Result.headers["Expires"] = JStr(imageRequestInfo.expires)

CaughtTooLarge ==
    /\ error.caught
    /\ Has(error.value, "code")
    /\ error.value.code = "TooLargeImageException"

\* C4: a failure whose code is TooLargeImageException gives the redirect
\* response computed from the RequestInfo's key, whatever the fallback and
\* CORS configuration, the origin protocol and the error's status, and
\* getObject is never called.
C4_TooLargeRedirects ==
    CaughtTooLarge
    => /\ Done
       /\ completion =
            [type |-> "return",
             value |-> [statusCode |-> 301,
                        isBase64Encoded |-> FALSE,
                        headers |-> [k \in {"Location"} |->
                                       JStr(env.HIGHRES_CDN_URL \o "/"
                                              \o TemplateStr(imageRequestInfo, "key"))],
                        body |-> [t |-> "null"]]]
       /\ ~Made("getObject")
       /\ builderCalls = <<>>

\* process rejected with a too-large error that carries a status, for an ALB
\* event, with the default fallback image enabled and configured
C4_Witness ==
    /\ CaughtTooLarge
    /\ Done
    /\ Made("process:rejected")
    /\ Has(error.value, "status")
    /\ imageRequestInfo.key = "cat.jpg"
    /\ FallbackConfigured
    /\ isAlb = "true"

\* RFC 4648 test vectors for the bodies of FallbackObjects ("f", "fo", "foob")
ExpectedBase64(bytes) ==
    IF bytes = <<102>> THEN "Zg=="
    ELSE IF bytes = <<102, 111>> THEN "Zm8="
    ELSE IF bytes = <<102, 111, 111, 98>> THEN "Zm9vYg=="
    ELSE "?"

ServedFallbackImage == Done /\ defaultFallbackImage.state = "resolved"

\* C5: for a failure that is not too-large, with the default fallback image
\* enabled, bucket and key non-blank and getObject resolved: the status is
\* the error's status if it has one, else 500; isBase64Encoded is true; the
\* body is the object's bytes in base64; Cache-Control is
\* "max-age=31536000,public"; Content-Type and Last-Modified are the
\* object's; the other headers are the non-error builder output.
C5_FallbackImage ==
    ServedFallbackImage =>
      LET object == defaultFallbackImage.object
          built == getResponseHeaders(FALSE, isAlb)
          own == {"Content-Type", "Last-Modified", "Cache-Control"}
      IN  /\ ~CaughtTooLarge
          /\ env.ENABLE_DEFAULT_FALLBACK_IMAGE = "Yes"
          /\ Result.statusCode = (IF Has(error.value, "status")
                                  THEN error.value.status ELSE 500)
          /\ Result.isBase64Encoded = TRUE
          /\ Result.body = [t |-> "base64", b64 |-> ExpectedBase64(object.Body)]
          /\ Result.headers["Cache-Control"] = JStr("max-age=31536000,public")
          /\ Result.headers["Content-Type"] = JStr(object.ContentType)
          /\ Result.headers["Last-Modified"] = JStr(object.LastModified)
          /\ DOMAIN Result.headers = DOMAIN built \cup own
          /\ \A k \in DOMAIN built \ own : Result.headers[k] = built[k]
          /\ "Content-Type" \notin DOMAIN built

\* setup rejected with status 400 and the four-byte fallback object was served
C5_Witness ==
    /\ ServedFallbackImage
    /\ Made("setup:rejected")
    /\ Has(error.value, "status")
    /\ error.value.status = 400
    /\ Result.statusCode = 400
    /\ Result.body = [t |-> "base64", b64 |-> "Zm9vYg=="]

\* the failure was answered by Tier 3: it is not too-large and no fallback
\* image was served (fallback disabled, misconfigured, or getObject rejected)
AnsweredByTierThree ==
    /\ Done
    /\ error.caught
    /\ ~CaughtTooLarge
    /\ defaultFallbackImage.state # "resolved"

TierThreeEnvelope ==
    /\ Result.statusCode = (IF Has(error.value, "status") THEN error.value.status ELSE 500)
    /\ Result.isBase64Encoded = FALSE
    /\ Result.headers["Content-Type"] = JStr("application/json")
    /\ Result.body.t = "json"

\* C6 as stated: a Tier-3 response has the error's status or 500,
\* isBase64Encoded false, Content-Type application/json and a JSON body with
\* all three of status, code and message, for every error shape.
C6_Original ==
    AnsweredByTierThree
    => /\ TierThreeEnvelope
       /\ {"status", "code", "message"} \subseteq DOMAIN Result.body.json

\* C6 as amended: a Tier-3 response has the error's status or 500,
\* isBase64Encoded false and Content-Type application/json; for an error
\* without status the body is the fixed generic object with status, code and
\* message; for an error with a status the body is the serialization of the
\* error itself, which holds status and holds code and message exactly when
\* the error carries them.
C6_ErrorBody ==
    AnsweredByTierThree
    => /\ TierThreeEnvelope
       /\ ~Has(error.value, "status")
            => Result.body.json =
                 [message |-> "Internal error. Please contact the system administrator.",
                  code |-> "InternalError",
                  status |-> 500]
       /\ Has(error.value, "status")
            => /\ Result.body.json = error.value
               /\ "status" \in DOMAIN Result.body.json
               /\ \A f \in {"code", "message"} :
                    f \in DOMAIN Result.body.json <=> Has(error.value, f)

\* a Tier-3 answer to an error that carries a status and a message but no code
C6_Witness ==
    /\ AnsweredByTierThree
    /\ DOMAIN error.value = {"status", "message"}
    /\ DOMAIN Result.body.json = {"status", "message"}
    /\ Result.statusCode = 400

SetupRejectedTooLarge == Made("setup:rejected") /\ CaughtTooLarge

FromLoadBalancer == Has(event, "requestContext") /\ Has(event.requestContext, "elb")

\* C8 as stated: no response to a load-balancer event has an
\* Access-Control-Allow-Credentials header, on any path and with any custom
\* headers.
C8_Original ==
    (Done /\ FromLoadBalancer) => AllowCredentials \notin DOMAIN Result.headers

\* C8 as amended: a response to a load-balancer event has no
\* Access-Control-Allow-Credentials header on the redirect, Tier-2 and Tier-3
\* paths, and on the success path unless RequestInfo.headers itself names
\* that header, in which case the response carries the custom value.
C8_NoCredentialsForAlb ==
    (Done /\ FromLoadBalancer /\ AllowCredentials \in DOMAIN Result.headers)
    => /\ Succeeded
       /\ AllowCredentials \in DOMAIN CustomOf(imageRequestInfo)
       /\ Result.headers[AllowCredentials] = JStr(imageRequestInfo.headers[AllowCredentials])

\* a success for a load-balancer event with custom headers and no
\* credentials header
C8_Witness ==
    /\ Succeeded
    /\ FromLoadBalancer
    /\ DOMAIN CustomOf(imageRequestInfo) = {"Cache-Control", "X-Custom"}
    /\ AllowCredentials \notin DOMAIN Result.headers

\* C9: getResponseHeaders gives no Access-Control-Allow-Credentials key for a
\* load-balancer origin and the key with the boolean true for any other
\* origin, for isError true and false and CORS enabled and disabled.
C9_CredentialsHeader ==
    \A i \in 1..Len(builderCalls) :
      LET call == builderCalls[i] IN
        /\ call.isAlb = IsAlbOf(event)
        /\ FromLoadBalancer => AllowCredentials \notin DOMAIN call.out
        /\ ~FromLoadBalancer
             => /\ AllowCredentials \in DOMAIN call.out
                /\ call.out[AllowCredentials] = JTrue

\* an error response built for a load-balancer event with CORS enabled
C9_Witness ==
    /\ Len(builderCalls) = 1
    /\ builderCalls[1].isError
    /\ FromLoadBalancer
    /\ env.CORS_ENABLED = "Yes"
    /\ AllowCredentials \notin DOMAIN builderCalls[1].out
    /\ "Access-Control-Allow-Origin" \in DOMAIN builderCalls[1].out

Rejections == {"setup:rejected", "process:rejected", "getObject:rejected"}

\* C10: in one invocation setup is called exactly once and first; process
\* is called at most once and only right after setup resolved; getObject is
\* called at most once and only right after setup or process rejected; and
\* no call follows a rejection except that one getObject call.
C10_OneAttemptInOrder ==
    invocation > 0 =>
      /\ Count("setup") = 1
      /\ calls[1] = "setup"
      /\ Count("process") <= 1
      /\ Count("getObject") <= 1
      /\ \A i \in 1..Len(calls) :
           /\ calls[i] = "process" => (i = 3 /\ calls[2] = "setup:resolved")
           /\ calls[i] = "getObject"
                => (i > 1 /\ calls[i - 1] \in {"setup:rejected", "process:rejected"})
           /\ calls[i] \in Rejections
                => \A j \in (i + 1)..Len(calls) :
                     /\ calls[i] # "getObject:rejected"
                     /\ calls[j] \in {"getObject", "getObject:resolved",
                                      "getObject:rejected"}
      /\ Done => calls[Len(calls)] \in
                   {"setup:resolved", "process:resolved", "getObject:resolved"}
                     \cup Rejections

\* setup resolved, process rejected, getObject rejected: three calls, one each
C10_Witness ==
    /\ Done
    /\ calls = <<"setup", "setup:resolved", "process", "process:rejected",
                 "getObject", "getObject:rejected">>

\* C11: the second of two invocations with the same event, the same
\* configuration and the same outcomes of setup, process and getObject
\* returns the ExecutionResult the first returned, and makes the same calls.
C11_SameResultTwice ==
    (first.recorded /\ Done)
    => /\ completion = first.completion
       /\ calls = first.calls

\* the second invocation served the fallback image, as the first had
C11_Witness ==
    /\ first.recorded
    /\ Done
    /\ first.defaultFallbackImage.state = "resolved"
    /\ defaultFallbackImage = first.defaultFallbackImage
    /\ completion = first.completion
    /\ completion.type = "return"

\* the response is a redirect: returned by the gate of line 40 or by Tier 1
Redirected == Done /\ (LastCall = "setup:resolved" \/ CaughtTooLarge)

IsImagePayload(body) == body.t = "base64"
IsErrorObject(body) ==
    /\ body.t = "json"
    /\ {"message", "code", "status"} \subseteq DOMAIN body.json

\* C12 as stated: the body of every response (success, redirect, Tier 2,
\* Tier 3) is an image payload or a JSON object with message, code and status.
C12_Original ==
    Done => (IsImagePayload(Result.body) \/ IsErrorObject(Result.body))

\* C12 as amended: the body of a success or Tier-2 response is an image
\* payload; the body of a redirect is null; the body of a Tier-3 response is
\* a JSON object, which has message, code and status when the error carries
\* no status or carries all three, and is otherwise the error's own
\* properties.  No response has any other body.
C12_BodyShapes ==
    Done =>
      \/ /\ Succeeded \/ ServedFallbackImage
         /\ ~Redirected
         /\ ~AnsweredByTierThree
         /\ IsImagePayload(Result.body)
      \/ /\ Redirected
         /\ ~Succeeded
         /\ ~ServedFallbackImage
         /\ ~AnsweredByTierThree
         /\ Result.body = [t |-> "null"]
      \/ /\ AnsweredByTierThree
         /\ ~Succeeded
         /\ ~Redirected
         /\ Result.body.t = "json"
         /\ DOMAIN Result.body.json \subseteq {"message", "code", "status"}
         /\ "status" \in DOMAIN Result.body.json
         /\ (~Has(error.value, "status") \/ {"message", "code"} \subseteq DOMAIN error.value)
              => IsErrorObject(Result.body)

\* a redirect returned by the gate, whose body is null
C12_Witness ==
    /\ Redirected
    /\ LastCall = "setup:resolved"
    /\ Result.body = [t |-> "null"]
    /\ Result.statusCode = 301

\* the one response to an unknown error, given the configuration and the event
UnknownErrorResponse ==
    LET fixed == [k \in {"Access-Control-Allow-Methods", "Access-Control-Allow-Headers",
                         "Content-Type"} |->
                    IF k = "Access-Control-Allow-Methods" THEN JStr("GET")
                    ELSE IF k = "Access-Control-Allow-Headers"
                         THEN JStr("Content-Type, Authorization")
                    ELSE JStr("application/json")]
        credentials == IF FromLoadBalancer THEN EmptyObject
                       ELSE [k \in {AllowCredentials} |-> JTrue]
        origin == IF env.CORS_ENABLED = "Yes"
                  THEN [k \in {"Access-Control-Allow-Origin"} |-> JStr(env.CORS_ORIGIN)]
                  ELSE EmptyObject
    IN  [statusCode |-> 500,
         isBase64Encoded |-> FALSE,
         headers |-> Spread(Spread(fixed, credentials), origin),
         body |-> [t |-> "json",
                   json |-> [message |-> "Internal error. Please contact the system administrator.",
                             code |-> "InternalError",
                             status |-> 500]]]

\* C13: a failure that is not too-large and carries no status, when Tier 2
\* serves no image, gets a response fixed by the configuration and the event
\* alone: status 500 and the generic body, whatever the error's message, code
\* or other properties; so any two such failures get the same response.
C13_UnknownErrorsLookAlike ==
    (AnsweredByTierThree /\ ~Has(error.value, "status"))
    => completion = [type |-> "return", value |-> UnknownErrorResponse]

\* an error with a message and a code of its own, answered by the generic body
C13_Witness ==
    /\ AnsweredByTierThree
    /\ error.value = [code |-> "BadRequest", message |-> "invalid edits"]
    /\ Result.body.json.code = "InternalError"
    /\ Result.statusCode = 500

FetchFailed == Done /\ defaultFallbackImage.state = "rejected"

\* C14: when getObject rejects, the handler returns the Tier-3 response for
\* the original error (the one setup or process rejected with): the status is
\* the original error's status or 500, the body is the original error's
\* serialization or the generic body; the getObject error decides neither and
\* does not escape.
C14_FetchFailureReportsOriginal ==
    FetchFailed =>
      LET original == error.value IN
        /\ completion.type = "return"
        /\ LastCall = "getObject:rejected"
        /\ \E i \in 1..Len(calls) : calls[i] \in {"setup:rejected", "process:rejected"}
        /\ Result.statusCode = (IF Has(original, "status") THEN original.status ELSE 500)
        /\ Result.isBase64Encoded = FALSE
        /\ Result.body =
             [t |-> "json",
              json |-> IF Has(original, "status") THEN original
                       ELSE [message |-> "Internal error. Please contact the system administrator.",
                             code |-> "InternalError",
                             status |-> 500]]

\* process rejected with status 400 and getObject with status 413: 400 is reported
C14_Witness ==
    /\ FetchFailed
    /\ Made("process:rejected")
    /\ error.value = [status |-> 400, code |-> "BadRequest"]
    /\ defaultFallbackImage.error = [status |-> 413, message |-> "invalid edits"]
    /\ Result.statusCode = 400
    /\ Result.body.json = [status |-> 400, code |-> "BadRequest"]

\* the variable is set and is neither empty nor white space only
SetAndNotBlank(name) == Has(env, name) /\ env[name] # "" /\ env[name] # " "

FallbackEnabledAndConfigured ==
    /\ Has(env, "ENABLE_DEFAULT_FALLBACK_IMAGE")
    /\ env.ENABLE_DEFAULT_FALLBACK_IMAGE = "Yes"
    /\ SetAndNotBlank("DEFAULT_FALLBACK_IMAGE_BUCKET")
    /\ SetAndNotBlank("DEFAULT_FALLBACK_IMAGE_KEY")

\* C15: getObject is called only when ENABLE_DEFAULT_FALLBACK_IMAGE is "Yes"
\* and DEFAULT_FALLBACK_IMAGE_BUCKET and DEFAULT_FALLBACK_IMAGE_KEY are both
\* set, non-empty and not white space only; when one of the three fails, a
\* failure that is not too-large is answered by Tier 3 at once, with no
\* getObject call.
C15_FetchOnlyWhenConfigured ==
    /\ Made("getObject") => FallbackEnabledAndConfigured
    /\ (error.caught /\ ~CaughtTooLarge /\ ~FallbackEnabledAndConfigured)
         => /\ AnsweredByTierThree
            /\ ~Made("getObject")
            /\ defaultFallbackImage = NotFetched
            /\ LastCall \in {"setup:rejected", "process:rejected"}
            /\ Result.body.t = "json"

\* fallback enabled with a bucket but an empty key: the failure went to Tier 3
C15_Witness ==
    /\ error.caught
    /\ ~CaughtTooLarge
    /\ env.ENABLE_DEFAULT_FALLBACK_IMAGE = "Yes"
    /\ SetAndNotBlank("DEFAULT_FALLBACK_IMAGE_BUCKET")
    /\ env.DEFAULT_FALLBACK_IMAGE_KEY = ""
    /\ AnsweredByTierThree
    /\ ~Made("getObject")

\* C16: every redirect response, from the no-edits gate or from Tier 1, has
\* the single header Location: nothing of the header builder's output, no
\* Content-Type and no custom header, whatever the CORS configuration and
\* the origin; the header builder is not called.
C16_RedirectHasOnlyLocation ==
    Redirected
    => /\ DOMAIN Result.headers = {"Location"}
       /\ Result.headers["Location"].t = "string"
       /\ builderCalls = <<>>

\* a Tier-1 redirect with CORS enabled, not from a load balancer, for a
\* RequestInfo with a content type and custom headers
C16_Witness ==
    /\ Redirected
    /\ Made("process:rejected")
    /\ env.CORS_ENABLED = "Yes"
    /\ ~FromLoadBalancer
    /\ Has(imageRequestInfo, "contentType")
    /\ DOMAIN CustomOf(imageRequestInfo) = {"Cache-Control", "X-Custom"}
    /\ DOMAIN Result.headers = {"Location"}

GateOpen ==
    /\ SetupResolved
    /\ (DOMAIN imageRequestInfo.edits # {} \/ imageRequestInfo.key = "")

\* C17: when setup resolves with non-empty edits or an empty key, the
\* handler calls process exactly once, right after setup and with that
\* RequestInfo, and returns a redirect only if process then rejects with a
\* too-large error.
C17_ProcessedUnlessGate ==
    GateOpen
    => /\ Count("process") = 1
       /\ calls[3] = "process"
       /\ pc = "process" => args = imageRequestInfo
       /\ (Done /\ (Result.statusCode = 301 \/ "Location" \in DOMAIN Result.headers))
            => (Made("process:rejected") /\ CaughtTooLarge)

\* setup resolved with no edits and an empty key, and the image was processed
C17_Witness ==
    /\ GateOpen
    /\ DOMAIN imageRequestInfo.edits = {}
    /\ imageRequestInfo.key = ""
    /\ Succeeded
    /\ Count("process") = 1

BuilderKeys ==
    {"Access-Control-Allow-Methods", "Access-Control-Allow-Headers",
     "Access-Control-Allow-Origin", "Content-Type", AllowCredentials}

\* C18: the output of getResponseHeaders is fixed by isError, isAlb,
\* CORS_ENABLED and CORS_ORIGIN: Access-Control-Allow-Methods is "GET" and
\* Access-Control-Allow-Headers is "Content-Type, Authorization" always;
\* Access-Control-Allow-Origin is there exactly when CORS_ENABLED is "Yes"
\* and is then CORS_ORIGIN; Content-Type is there exactly when isError and is
\* then "application/json"; besides the credentials key there is no other key.
C18_BuilderOutput ==
    \A i \in 1..Len(builderCalls) :
      LET out == builderCalls[i].out
          isError == builderCalls[i].isError
      IN  /\ DOMAIN out \subseteq BuilderKeys
          /\ {"Access-Control-Allow-Methods", "Access-Control-Allow-Headers"}
               \subseteq DOMAIN out
          /\ out["Access-Control-Allow-Methods"] = JStr("GET")
          /\ out["Access-Control-Allow-Headers"] = JStr("Content-Type, Authorization")
          /\ "Access-Control-Allow-Origin" \in DOMAIN out <=> env.CORS_ENABLED = "Yes"
          /\ "Access-Control-Allow-Origin" \in DOMAIN out
               => out["Access-Control-Allow-Origin"] = JStr(env.CORS_ORIGIN)
          /\ "Content-Type" \in DOMAIN out <=> isError
          /\ "Content-Type" \in DOMAIN out
               => out["Content-Type"] = JStr("application/json")

\* a success call with CORS disabled: methods, headers and credentials only
C18_Witness ==
    /\ Len(builderCalls) = 1
    /\ ~builderCalls[1].isError
    /\ env.CORS_ENABLED = "No"
    /\ DOMAIN builderCalls[1].out =
         {"Access-Control-Allow-Methods", "Access-Control-Allow-Headers", AllowCredentials}

Suspended == pc \in {"setup", "process", "getObject"}

\* C19: if every external call eventually resolves or rejects, every
\* invocation ends, and it ends with exactly one response: an invocation that
\* has ended has returned an ExecutionResult, the result is produced by the
\* step that ends the invocation, and it does not change afterwards until
\* the host invokes the handler again.
C19_EndsWithOneResponse ==
    /\ [](Suspended => <>Done)
    /\ [](Done => completion.type = "return" /\ DOMAIN Result = ResultFields)
    /\ [](~Done => completion.type = "none")
    /\ [][completion.type = "return"
            => (completion' = completion \/ invocation' = invocation + 1)]_vars

\* an invocation that made all three calls has ended with its response
C19_Witness ==
    /\ Done
    /\ Len(calls) = 6
    /\ completion.type = "return"
    /\ DOMAIN Result = ResultFields

\* C20: the legacy handler returns a complete response on every path: the
\* returned object has an integer statusCode, headers, a body and
\* isBase64Encoded; on a failure the statusCode is the error's numeric
\* status; the 301 redirect carries body and isBase64Encoded too.
C20_LegacyCompleteResponse ==
    Done
    => /\ completion.type = "return"
       /\ DOMAIN Result = ResultFields
       /\ Result.statusCode \in Int
       /\ error.caught => (Has(error.value, "status")
                             /\ Result.statusCode = error.value.status)

====
